---- MODULE Spec2Model ----
(***************************************************************************)
(* MGK.js: the physics and collision core of the newer engine revision     *)
(* (Game.update, Game.handleBoundary, RigidBody, Collider,                 *)
(* CollisionSystem).  JavaScript numbers are modelled as exact rationals   *)
(* <<n, d>> in lowest terms with d > 0; <<0, 0>> stands for NaN.  A tick   *)
(* is started only from states in which every Math.hypot the collision     *)
(* pass computes is rational, so that no rounding is invented.             *)
(***************************************************************************)
EXTENDS Integers, Sequences, FiniteSets, TLC

VARIABLES objects, plugins, boundaryEnabled, canvas, pc, k, dt, ticks,
          integrated, pre, last, pairLog, collisionCalls, obj, callLog

vars == <<objects, plugins, boundaryEnabled, canvas, pc, k, dt, ticks,
          integrated, pre, last, pairLog, collisionCalls, obj, callLog>>

\* ---------------------------------------------------------------- bounds
MaxObjs == 3
MaxTicks == 2

\* ------------------------------------------------------------- rationals
Abs(n) == IF n < 0 THEN -n ELSE n

RECURSIVE GCD(_, _)
GCD(a, b) == IF b = 0 THEN a ELSE GCD(b, a % b)

Norm(n, d) ==
  LET g == GCD(Abs(n), Abs(d))
      s == IF d < 0 THEN -1 ELSE 1
  IN <<(s * n) \div g, (s * d) \div g>>

Q(n, d) == Norm(n, d)
Zero == <<0, 1>>
One == <<1, 1>>
NaN == <<0, 0>>

\* Sums and comparisons go through the least common denominator, products
\* cancel crosswise first, so that intermediate integers stay small.  NaN
\* makes a sum or a product NaN and a comparison false.
LCD(a, b) == (a[2] \div GCD(a[2], b[2])) * b[2]
RAdd(a, b) ==
  IF a[2] = 0 \/ b[2] = 0 THEN <<0, 0>>
  ELSE LET l == LCD(a, b)
       IN Norm(a[1] * (l \div a[2]) + b[1] * (l \div b[2]), l)
RNeg(a) == <<-a[1], a[2]>>
RSub(a, b) == RAdd(a, RNeg(b))
RMul(a, b) ==
  LET g1 == GCD(Abs(a[1]), b[2])
      g2 == GCD(Abs(b[1]), a[2])
  IN IF a[2] = 0 \/ b[2] = 0 THEN <<0, 0>>
     ELSE IF a[1] = 0 \/ b[1] = 0 THEN <<0, 1>>
     ELSE <<(a[1] \div g1) * (b[1] \div g2), (a[2] \div g2) * (b[2] \div g1)>>
RLt(a, b) ==
  /\ a[2] # 0 /\ b[2] # 0
  /\ LET l == LCD(a, b) IN a[1] * (l \div a[2]) < b[1] * (l \div b[2])
RLe(a, b) ==
  /\ a[2] # 0 /\ b[2] # 0
  /\ LET l == LCD(a, b) IN a[1] * (l \div a[2]) <= b[1] * (l \div b[2])
RAbs(a) == <<Abs(a[1]), a[2]>>
RMin(a, b) == IF RLt(b, a) THEN b ELSE a

\* JavaScript's a / b for finite a and b >= 0 as the code uses it: 0 / 0 is
\* NaN; a non-zero divisor gives the quotient.
JsDiv(a, b) == IF b[1] = 0 THEN NaN ELSE RMul(a, Norm(b[2], b[1]))

\* A slip: the || 0 is missing, NaN stays.
OrZeroMissing(v) == v

\* JavaScript's v || 0 on a number: NaN and 0 are falsy.
OrZero(v) == IF v = NaN \/ v = Zero THEN Zero ELSE v

\* The integer square root of n >= 0 by bisection: lo * lo <= n < hi * hi.
RECURSIVE ISqrtIn(_, _, _)
ISqrtIn(n, lo, hi) ==
  IF hi - lo <= 1 THEN lo
  ELSE LET mid == (lo + hi) \div 2
       IN IF mid * mid <= n THEN ISqrtIn(n, mid, hi) ELSE ISqrtIn(n, lo, mid)
ISqrt(n) == ISqrtIn(n, 0, IF n < 46340 THEN n + 1 ELSE 46341)
IsSquare(n) == ISqrt(n) * ISqrt(n) = n

RationalRoot(q) == IsSquare(q[1]) /\ IsSquare(q[2])
Sqrt(q) == <<ISqrt(q[1]), ISqrt(q[2])>>
\* Math.hypot: along an axis it is the absolute value of the other argument.
Hypot(dx, dy) ==
  IF dy = Zero THEN RAbs(dx)
  ELSE IF dx = Zero THEN RAbs(dy)
       ELSE Sqrt(RAdd(RMul(dx, dx), RMul(dy, dy)))
HypotRational(dx, dy) ==
  dx = Zero \/ dy = Zero \/ RationalRoot(RAdd(RMul(dx, dx), RMul(dy, dy)))

\* ------------------------------------------------------------ components
\* GameObject: an entity with no component yet.  The component fields hold
\* zeros until the component is added.  massArg remembers the mass option
\* the RigidBody constructor was given (the code does not keep it).  script
\* names what the update of a user component of the entity does.
NewGameObject(id) ==
  [id |-> id, hasT |-> FALSE, hasRB |-> FALSE, hasCol |-> FALSE,
   x |-> Zero, y |-> Zero, angle |-> Zero,
   vx |-> Zero, vy |-> Zero, angularVelocity |-> Zero,
   gravity |-> Zero, friction |-> Zero, restitution |-> Zero,
   mass |-> One, buoyancy |-> Zero, radius |-> Zero,
   onCollision |-> FALSE, massArg |-> One, script |-> "none"]

\* new Transform({x, y}): angle defaults to 0.
Transform(go, x, y) ==
  [go EXCEPT !.hasT = TRUE, !.x = x, !.y = y, !.angle = Zero]

\* A slip: the mass option is stored as given.
RigidBodyAnyMass(go, o) ==
  [go EXCEPT !.hasRB = TRUE, !.vx = o.vx, !.vy = o.vy,
             !.angularVelocity = o.angularVelocity,
             !.gravity = o.gravity, !.friction = o.friction,
             !.restitution = o.restitution,
             !.mass = o.mass, !.massArg = o.mass,
             !.buoyancy = o.buoyancy]

\* new RigidBody(o): a non-positive mass is stored as 1.
RigidBody(go, o) ==
  [go EXCEPT !.hasRB = TRUE, !.vx = o.vx, !.vy = o.vy,
             !.angularVelocity = o.angularVelocity,
             !.gravity = o.gravity, !.friction = o.friction,
             !.restitution = o.restitution,
             !.mass = IF RLe(o.mass, Zero) THEN One ELSE o.mass,
             !.massArg = o.mass,
             !.buoyancy = o.buoyancy]

\* new Collider({radius})
Collider(go, radius) == [go EXCEPT !.hasCol = TRUE, !.radius = radius]

\* ------------------------------------------------------ RigidBody.update
\* A slip: the position is integrated before the damping is applied.
RigidBodyUpdateIntegrateFirst(go, d) ==
  IF ~go.hasT THEN go
  ELSE
    LET vy1 == RAdd(go.vy, RMul(RSub(go.gravity, go.buoyancy), d))
    IN [go EXCEPT !.vx = RMul(go.vx, RSub(One, go.friction)),
                  !.vy = RMul(vy1, RSub(One, go.friction)),
                  !.x = RAdd(go.x, RMul(go.vx, d)),
                  !.y = RAdd(go.y, RMul(vy1, d)),
                  !.angle = RAdd(go.angle, RMul(go.angularVelocity, d))]

RigidBodyUpdate(go, d) ==
  IF ~go.hasT THEN go
  ELSE
    LET vy1 == RAdd(go.vy, RMul(RSub(go.gravity, go.buoyancy), d))
        vx2 == RMul(go.vx, RSub(One, go.friction))
        vy2 == RMul(vy1, RSub(One, go.friction))
    IN [go EXCEPT !.vx = vx2, !.vy = vy2,
                  !.x = RAdd(go.x, RMul(vx2, d)),
                  !.y = RAdd(go.y, RMul(vy2, d)),
                  !.angle = RAdd(go.angle, RMul(go.angularVelocity, d))]

\* GameObject.update: every component's update, in order; of Transform,
\* RigidBody and Collider only RigidBody.update does anything.
GameObjectUpdate(go, d) == IF go.hasRB THEN RigidBodyUpdate(go, d) ELSE go

\* ---------------------------------------------------- GameObject.destroy
\* go.destroy(): indexOf and splice take the entity out of scene.objects;
\* its components and plugins are emptied.
Destroy(objs, id) == SelectSeq(objs, LAMBDA o : o.id # id)

\* What the update of a user component does: nothing, or destroy() of its
\* own entity, of game.objects[0], or of the last entity of game.objects.
Scripts == {"none", "destroySelf", "destroyFirst", "destroyLast"}

ScriptTarget(objs, i) ==
  IF objs[i].script = "destroySelf" THEN objs[i].id
  ELSE IF objs[i].script = "destroyFirst" THEN objs[1].id
       ELSE objs[Len(objs)].id

\* The user component's update, in GameObject.update's loop over
\* this.components at entity i; and the calls it makes.
ScriptUpdate(objs, i) ==
  IF objs[i].script = "none" THEN objs
  ELSE Destroy(objs, ScriptTarget(objs, i))

ScriptCalls(objs, i) ==
  IF objs[i].script = "none" THEN <<>>
  ELSE <<(<<"destroy", ScriptTarget(objs, i)>>)>>

\* --------------------------------------------------- Game.handleBoundary
\* A slip: the velocity is negated instead of forced away from the wall.
ClampAxisFlip(pos, vel, radius, extent) ==
  IF RLt(RSub(pos, radius), Zero)
  THEN <<radius, RNeg(vel)>>
  ELSE IF RLt(extent, RAdd(pos, radius))
       THEN <<RSub(extent, radius), RNeg(vel)>>
       ELSE <<pos, vel>>

ClampAxis(pos, vel, radius, extent) ==
  IF RLt(RSub(pos, radius), Zero)
  THEN <<radius, RAbs(vel)>>
  ELSE IF RLt(extent, RAdd(pos, radius))
       THEN <<RSub(extent, radius), RNeg(RAbs(vel))>>
       ELSE <<pos, vel>>

HandleBoundary(go, cv) ==
  IF ~go.hasT \/ ~go.hasRB \/ ~go.hasCol THEN go
  ELSE
    LET ax == ClampAxis(go.x, go.vx, go.radius, cv.width)
        ay == ClampAxis(go.y, go.vy, go.radius, cv.height)
    IN [go EXCEPT !.x = ax[1], !.vx = ax[2], !.y = ay[1], !.vy = ay[2]]

\* ------------------------------------------------ CollisionSystem.update
\* if (dist < minDist)
Overlaps(dist, minDist) == RLt(dist, minDist)

\* A slip: one RigidBody is enough to resolve the pair.
BothRigidEither(a, b) == a.hasRB \/ b.hasRB

\* if (aRigid && bRigid)
BothRigid(a, b) == a.hasRB /\ b.hasRB

\* A slip: the overlap is split in halves whatever the masses.
CorrectionHalf(overlap, otherMass, totalMass) == RMul(overlap, Q(1, 2))

\* A slip: each body weighted by its own mass fraction.
CorrectionOwnMass(overlap, otherMass, totalMass) ==
  RMul(overlap, JsDiv(RSub(totalMass, otherMass), totalMass))

\* overlap * (otherMass / totalMass)
Correction(overlap, otherMass, totalMass) ==
  RMul(overlap, JsDiv(otherMass, totalMass))

\* A slip: the early exit for separating pairs is missing.
SeparatingNever(velAlongNormal) == FALSE

\* if (velAlongNormal > 0) continue
Separating(velAlongNormal) == RLt(Zero, velAlongNormal)

\* A slip: the larger restitution is taken.
RestitutionMax(a, b) ==
  IF RLt(a.restitution, b.restitution) THEN b.restitution ELSE a.restitution

\* Math.min(aRigid.restitution, bRigid.restitution)
Restitution(a, b) == RMin(a.restitution, b.restitution)

\* -(1 + e) * velAlongNormal / (1 / massA + 1 / massB)
ImpulseScalar(e, velAlongNormal, massA, massB) ==
  JsDiv(RMul(RNeg(RAdd(One, e)), velAlongNormal),
        RAdd(JsDiv(One, massA), JsDiv(One, massB)))

\* The body of the inner loop for the pair (i, j) once both Colliders are
\* found and both Transforms exist.  objs is the entity list as mutated so
\* far in this pass.
ResolvePair(objs, i, j) ==
  LET a == objs[i]
      b == objs[j]
      dx == RSub(b.x, a.x)
      dy == RSub(b.y, a.y)
      dist == Hypot(dx, dy)
      minDist == RAdd(a.radius, b.radius)
  IN
  IF ~Overlaps(dist, minDist) THEN objs
  ELSE
    LET overlap == RSub(minDist, dist)
        nx == OrZero(JsDiv(dx, dist))
        ny == OrZero(JsDiv(dy, dist))
    IN
    IF ~BothRigid(a, b) THEN objs
    ELSE
      LET totalMass == RAdd(a.mass, b.mass)
          correctionA == Correction(overlap, b.mass, totalMass)
          correctionB == Correction(overlap, a.mass, totalMass)
          a1 == [a EXCEPT !.x = RSub(a.x, RMul(nx, correctionA)),
                          !.y = RSub(a.y, RMul(ny, correctionA))]
          b1 == [b EXCEPT !.x = RAdd(b.x, RMul(nx, correctionB)),
                          !.y = RAdd(b.y, RMul(ny, correctionB))]
          relVelX == RSub(b.vx, a.vx)
          relVelY == RSub(b.vy, a.vy)
          velAlongNormal == RAdd(RMul(relVelX, nx), RMul(relVelY, ny))
      IN
      IF Separating(velAlongNormal)
      THEN [objs EXCEPT ![i] = a1, ![j] = b1]
      ELSE
        LET e == Restitution(a, b)
            jj == ImpulseScalar(e, velAlongNormal, a.mass, b.mass)
            impulseX == RMul(jj, nx)
            impulseY == RMul(jj, ny)
            a2 == [a1 EXCEPT !.vx = RSub(a.vx, JsDiv(impulseX, a.mass)),
                             !.vy = RSub(a.vy, JsDiv(impulseY, a.mass))]
            b2 == [b1 EXCEPT !.vx = RAdd(b.vx, JsDiv(impulseX, b.mass)),
                             !.vy = RAdd(b.vy, JsDiv(impulseY, b.mass))]
        IN [objs EXCEPT ![i] = a2, ![j] = b2]

\* Whether the pair's distance is a rational number (the model's arithmetic
\* covers the pass only then).
PairRational(objs, i, j) ==
  HypotRational(RSub(objs[j].x, objs[i].x), RSub(objs[j].y, objs[i].y))

\* The state of one pass: the entity list, whether a TypeError was thrown
\* (reading .position of an undefined Transform), the pairs the inner loop
\* body was entered for (both Colliders found), and whether every distance
\* so far was rational (the pass is followed no further once one is not).
RECURSIVE InnerLoop(_, _, _)
InnerLoop(st, i, j) ==
  IF st.thrown \/ ~st.rational \/ j > Len(st.objs) THEN st
  ELSE IF ~st.objs[j].hasCol THEN InnerLoop(st, i, j + 1)
  ELSE IF ~st.objs[j].hasT \/ ~st.objs[i].hasT
       THEN [st EXCEPT !.thrown = TRUE, !.log = Append(st.log, <<i, j>>)]
       ELSE IF ~PairRational(st.objs, i, j)
            THEN [st EXCEPT !.rational = FALSE]
            ELSE InnerLoop([st EXCEPT !.objs = ResolvePair(st.objs, i, j),
                                      !.log = Append(st.log, <<i, j>>)],
                           i, j + 1)

RECURSIVE OuterLoop(_, _)
OuterLoop(st, i) ==
  IF st.thrown \/ ~st.rational \/ i > Len(st.objs) THEN st
  ELSE IF ~st.objs[i].hasCol THEN OuterLoop(st, i + 1)
  ELSE OuterLoop(InnerLoop(st, i, i + 1), i + 1)

CollisionSystemUpdate(objs) ==
  OuterLoop([objs |-> objs, thrown |-> FALSE, log |-> <<>>, rational |-> TRUE], 1)

\* Game.update's loop over this.plugins, at plugin p: the only plugin the
\* model registers is a CollisionSystem.
PluginUpdate(name, objs) ==
  IF name = "CollisionSystem" THEN CollisionSystemUpdate(objs)
  ELSE [objs |-> objs, thrown |-> FALSE, log |-> <<>>, rational |-> TRUE]

\* Every pass of the next tick computes rational distances only.
RECURSIVE PassesRational(_, _, _)
PassesRational(objs, ps, p) ==
  IF p > Len(ps) THEN TRUE
  ELSE LET r == PluginUpdate(ps[p], objs)
       IN r.rational /\ (r.thrown \/ PassesRational(r.objs, ps, p + 1))

\* ---------------------------------------------------------------- inputs
DTs == {Zero, Q(1, 2)}
CanvasSizes == {[width |-> Q(60, 1), height |-> Q(40, 1)]}

Body(vx, vy, massIn, rest) ==
  [vx |-> vx, vy |-> vy, angularVelocity |-> One, gravity |-> Zero,
   friction |-> Zero, restitution |-> rest, mass |-> massIn,
   buoyancy |-> Zero]

\* The entities a scene is built from (new GameObject(game), addComponent
\* calls, an optional onCollision callback), before their id is given.
SceneObjects ==
  LET go == NewGameObject(0)
      r10 == Q(10, 1)
  IN { [Collider(RigidBody(Transform(go, Q(20, 1), Q(20, 1)),
                           Body(Q(4, 1), Zero, Zero, Q(1, 2))), r10)
          EXCEPT !.onCollision = TRUE],
       Collider(RigidBody(Transform(go, Q(36, 1), Q(20, 1)),
                          Body(Q(-4, 1), Zero, Q(3, 1), One)), r10),
       [Collider(Transform(go, Q(36, 1), Q(20, 1)), r10)
          EXCEPT !.onCollision = TRUE],
       Collider(go, r10),
       RigidBody(go, Body(One, One, One, One)),
       Collider(RigidBody(Transform(go, Q(36, 1), Q(32, 1)),
                          Body(Zero, Q(8, 1), Q(-5, 1), Q(7, 10))), r10) }

\* ----------------------------------------------------------------- state
Init ==
  /\ objects = <<>>
  /\ plugins = <<>>
  /\ boundaryEnabled = FALSE
  /\ canvas \in CanvasSizes
  /\ pc = "idle"
  /\ k = 0
  /\ dt = Zero
  /\ ticks = 0
  /\ integrated = {}
  /\ pre = <<>>
  /\ last = "new Game"
  /\ pairLog = <<>>
  /\ collisionCalls = {}
  /\ obj = 0
  /\ callLog = <<>>

\* game.objects.push(go)
AddObject(t) ==
  /\ pc = "idle" /\ ticks = 0
  /\ Len(objects) < MaxObjs
  /\ objects' = Append(objects, [t EXCEPT !.id = Len(objects) + 1])
  /\ UNCHANGED <<plugins, boundaryEnabled, canvas, pc, k, dt, ticks,
                 integrated, pre, last, pairLog, collisionCalls,
                 obj, callLog>>

\* game.plugins.push(new CollisionSystem())
AddPlugin ==
  /\ pc = "idle" /\ ticks = 0
  /\ plugins = <<>>
  /\ plugins' = <<"CollisionSystem">>
  /\ UNCHANGED <<objects, boundaryEnabled, canvas, pc, k, dt, ticks,
                 integrated, pre, last, pairLog, collisionCalls,
                 obj, callLog>>

\* game.enableBoundary(enable)
EnableBoundary(enable) ==
  /\ pc = "idle" /\ ticks = 0
  /\ enable # boundaryEnabled
  /\ boundaryEnabled' = enable
  /\ UNCHANGED <<objects, plugins, canvas, pc, k, dt, ticks,
                 integrated, pre, last, pairLog, collisionCalls,
                 obj, callLog>>

\* Game.update(d) is entered.
GameUpdate(d) ==
  /\ pc = "idle"
  /\ ticks < MaxTicks
  /\ PassesRational(objects, plugins, 1)
  /\ pc' = "plugins"
  /\ k' = 1
  /\ dt' = d
  /\ ticks' = ticks + 1
  /\ integrated' = {}
  /\ pre' = objects
  /\ last' = "Game.update"
  /\ pairLog' = <<>>
  /\ obj' = 0
  /\ callLog' = <<>>
  /\ UNCHANGED <<objects, plugins, boundaryEnabled, canvas, collisionCalls>>

\* for (const p of this.plugins) p.update(this, dt): one plugin's update.
\* A TypeError thrown by it leaves Game.update and ends the frame loop.
PluginsStep ==
  /\ pc = "plugins"
  /\ k <= Len(plugins)
  /\ LET r == PluginUpdate(plugins[k], objects)
     IN /\ objects' = r.objs
        /\ pairLog' = r.log
        /\ pc' = IF r.thrown THEN "thrown" ELSE "plugins"
  /\ k' = k + 1
  /\ pre' = objects
  /\ last' = "CollisionSystem.update"
  /\ UNCHANGED <<plugins, boundaryEnabled, canvas, dt, ticks, integrated,
                 collisionCalls,
                 obj, callLog>>

\* The plugin loop is over; this.objects.forEach begins.
PluginsDone ==
  /\ pc = "plugins"
  /\ k > Len(plugins)
  /\ pc' = "forEach"
  /\ k' = 1
  /\ UNCHANGED <<objects, plugins, boundaryEnabled, canvas, dt, ticks,
                 integrated, pre, last, pairLog, collisionCalls,
                 obj, callLog>>

\* The forEach callback at index k: obj.update(dt).  The engine's components
\* are updated first, the entity's script (a user component added last)
\* after them.
ObjUpdate ==
  /\ pc = "forEach"
  /\ k <= Len(objects)
  /\ LET updated == [objects EXCEPT ![k] = GameObjectUpdate(@, dt)]
     IN /\ objects' = ScriptUpdate(updated, k)
        /\ callLog' = callLog \o <<(<<"update", objects[k].id>>)>>
                               \o ScriptCalls(updated, k)
  /\ obj' = objects[k].id
  /\ integrated' = integrated \cup {objects[k].id}
  /\ pc' = IF boundaryEnabled THEN "boundary" ELSE "forEach"
  /\ k' = IF boundaryEnabled THEN k ELSE k + 1
  /\ pre' = objects
  /\ last' = "obj.update"
  /\ UNCHANGED <<plugins, boundaryEnabled, canvas, dt, ticks, pairLog,
                 collisionCalls>>

\* The forEach callback at index k: this.handleBoundary(obj).  A destroyed
\* obj has no components left and is no longer in the list.
BoundaryStep ==
  /\ pc = "boundary"
  /\ objects' = [i \in 1..Len(objects) |->
                   IF objects[i].id = obj
                   THEN HandleBoundary(objects[i], canvas)
                   ELSE objects[i]]
  /\ callLog' = Append(callLog, <<"boundary", obj>>)
  /\ pc' = "forEach"
  /\ k' = k + 1
  /\ pre' = objects
  /\ last' = "handleBoundary"
  /\ UNCHANGED <<plugins, boundaryEnabled, canvas, dt, ticks, integrated,
                 pairLog, collisionCalls, obj>>

\* Game.update returns.
UpdateReturn ==
  /\ pc = "forEach"
  /\ k > Len(objects)
  /\ pc' = "idle"
  /\ k' = 0
  /\ last' = "return"
  /\ UNCHANGED <<objects, plugins, boundaryEnabled, canvas, dt, ticks,
                 integrated, pre, pairLog, collisionCalls,
                 obj, callLog>>

Tick ==
  \/ \E d \in DTs : GameUpdate(d)
  \/ PluginsStep
  \/ PluginsDone
  \/ ObjUpdate
  \/ BoundaryStep
  \/ UpdateReturn

Next ==
  \/ \E t \in SceneObjects : AddObject(t)
  \/ AddPlugin
  \/ \E b \in BOOLEAN : EnableBoundary(b)
  \/ Tick

Spec == Init /\ [][Next]_vars

\* ------------------------------------------------- a scene of two bodies
\* Entity 1 is a full body near the left wall; entity 2 is a full body or
\* a Collider without RigidBody, placed relative to entity 1.
PairFirst ==
  { [Collider(RigidBody(Transform(NewGameObject(1), Q(12, 1), Q(20, 1)),
                        Body(v[1], v[2], m, Q(1, 2))), Q(10, 1))
       EXCEPT !.onCollision = TRUE] :
      v \in {<<Q(4, 1), Zero>>, <<Q(-4, 1), Q(3, 1)>>},
      m \in {One, Q(3, 1)} }

PairOffsets ==
  {<<Q(16, 1), Zero>>, <<Q(6, 1), Q(8, 1)>>, <<Zero, Zero>>,
   <<Q(12, 1), Q(16, 1)>>, <<Q(30, 1), Zero>>}

PairSecond ==
  LET at(o) == Transform(NewGameObject(2), RAdd(Q(12, 1), o[1]),
                         RAdd(Q(20, 1), o[2]))
  IN { Collider(RigidBody(at(o), Body(v[1], v[2], m, e)), r) :
         o \in PairOffsets,
         v \in {<<Zero, Zero>>, <<Q(-4, 1), Zero>>, <<Q(6, 1), Q(-2, 1)>>},
         m \in {Q(-5, 1), Zero, Q(2, 1)},
         e \in {Zero, Q(7, 10)},
         r \in {Q(10, 1), Q(5, 1)} }
     \cup { Collider(at(o), r) : o \in PairOffsets, r \in {Q(10, 1), Q(5, 1)} }

InitPair ==
  /\ \E a \in PairFirst, b \in PairSecond : objects = <<a, b>>
  /\ plugins = <<"CollisionSystem">>
  /\ boundaryEnabled \in BOOLEAN
  /\ canvas \in CanvasSizes
  /\ pc = "idle"
  /\ k = 0
  /\ dt = Zero
  /\ ticks = 0
  /\ integrated = {}
  /\ pre = <<>>
  /\ last = "new Game"
  /\ pairLog = <<>>
  /\ collisionCalls = {}
  /\ obj = 0
  /\ callLog = <<>>

SpecPair == InitPair /\ [][Tick]_vars

\* --------------------------------------------------- a scene of one body
SingleBodies ==
  LET go(c) == IF c = "RC" THEN NewGameObject(1)
               ELSE Transform(NewGameObject(1), Zero, Zero)
      col(c, g) == IF c = "TR" THEN g ELSE Collider(g, Q(10, 1))
  IN { [col(c, RigidBody(go(c),
                 [vx |-> v[1], vy |-> v[2], angularVelocity |-> Q(-2, 1),
                  gravity |-> g, friction |-> f, restitution |-> Q(7, 10),
                  mass |-> One, buoyancy |-> b]))
          EXCEPT !.x = IF c = "RC" THEN Zero ELSE p[1],
                 !.y = IF c = "RC" THEN Zero ELSE p[2]] :
         c \in {"TRC", "TR", "RC"},
         p \in {Q(5, 1), Q(55, 1)} \X {Q(20, 1), Q(38, 1)},
         v \in {Q(-4, 1), Zero, Q(6, 1)} \X {Zero, Q(-2, 1)},
         g \in {Zero, Q(10, 1)},
         b \in {Zero, Q(4, 1)},
         f \in {Zero, Q(1, 2)} }

InitBody ==
  /\ \E a \in SingleBodies : objects = <<a>>
  /\ plugins = <<"CollisionSystem">>
  /\ boundaryEnabled \in BOOLEAN
  /\ canvas \in CanvasSizes
  /\ pc = "idle"
  /\ k = 0
  /\ dt = Zero
  /\ ticks = 0
  /\ integrated = {}
  /\ pre = <<>>
  /\ last = "new Game"
  /\ pairLog = <<>>
  /\ collisionCalls = {}
  /\ obj = 0
  /\ callLog = <<>>

SpecBody == InitBody /\ [][Tick]_vars

\* ------------------------------------- a scene of entities with scripts
\* Bodies of radius 5 on the line y = 20; the second and the third overlap
\* next to the left wall.
ScriptX(i) == IF i = 1 THEN Q(30, 1) ELSE Q(6 * (i - 1), 1)

ScriptedBody(i, s) ==
  [Collider(RigidBody(Transform(NewGameObject(i), ScriptX(i), Q(20, 1)),
                      Body(Q(-4, 1), Zero, One, Q(1, 2))), Q(5, 1))
     EXCEPT !.script = s]

InitScript ==
  /\ \E n \in 1..MaxObjs : \E ss \in [1..n -> Scripts] :
       objects = [i \in 1..n |-> ScriptedBody(i, ss[i])]
  /\ plugins = <<"CollisionSystem">>
  /\ boundaryEnabled \in BOOLEAN
  /\ canvas \in CanvasSizes
  /\ pc = "idle"
  /\ k = 0
  /\ dt = Zero
  /\ ticks = 0
  /\ integrated = {}
  /\ pre = <<>>
  /\ last = "new Game"
  /\ pairLog = <<>>
  /\ collisionCalls = {}
  /\ obj = 0
  /\ callLog = <<>>

SpecScript == InitScript /\ [][Tick]_vars

\* ================================================================ claims
\* The state right after one CollisionSystem.update pass that did not
\* throw; pre is the entity list the pass started from.
AfterPass == last = "CollisionSystem.update" /\ pc # "thrown"

\* The entity the last obj.update or handleBoundary acted on.
LastIndex == IF pc = "boundary" THEN k ELSE k - 1

Dot(ax, ay, bx, by) == RAdd(RMul(ax, bx), RMul(ay, by))
DistOf(a, b) == Hypot(RSub(b.x, a.x), RSub(b.y, a.y))
MinDistOf(a, b) == RAdd(a.radius, b.radius)
OverlapOf(a, b) == RSub(MinDistOf(a, b), DistOf(a, b))
\* The unit normal from a to b (defined when their distance is not 0).
NormalX(a, b) == JsDiv(RSub(b.x, a.x), DistOf(a, b))
NormalY(a, b) == JsDiv(RSub(b.y, a.y), DistOf(a, b))
\* The relative velocity of b with respect to a along the normal given.
VelAlong(a, b, nx, ny) == Dot(RSub(b.vx, a.vx), RSub(b.vy, a.vy), nx, ny)

\* The scene is one pair of entities with Transform and Collider whose
\* circles overlap at a non-zero distance.
OverlappingPair(objs) ==
  /\ Len(objs) = 2
  /\ objs[1].hasT /\ objs[1].hasCol /\ objs[2].hasT /\ objs[2].hasCol
  /\ RLt(Zero, DistOf(objs[1], objs[2]))
  /\ RLt(DistOf(objs[1], objs[2]), MinDistOf(objs[1], objs[2]))

\* The same, both entities carrying a RigidBody.
OverlappingBodies(objs) ==
  OverlappingPair(objs) /\ objs[1].hasRB /\ objs[2].hasRB

\* C1: in every tick, when CollisionSystem.update has run, RigidBody.update
\* has already run in that tick for every entity that carries a RigidBody.
C1_IntegrationBeforeCollision ==
  last = "CollisionSystem.update" =>
    \A i \in 1..Len(objects) :
      objects[i].hasRB => objects[i].id \in integrated

\* C2: for an overlapping pair of bodies approaching along the normal, the
\* relative velocity along the normal after the pass is -e times the one
\* before, e the smaller restitution.
C2_RestitutionLaw ==
  (AfterPass /\ OverlappingBodies(pre)) =>
    LET a == pre[1]
        b == pre[2]
        nx == NormalX(a, b)
        ny == NormalY(a, b)
        before == VelAlong(a, b, nx, ny)
        after == VelAlong(objects[1], objects[2], nx, ny)
        e == RMin(a.restitution, b.restitution)
    IN RLe(before, Zero) => after = RMul(RNeg(e), before)

C2_Witness ==
  /\ AfterPass /\ OverlappingBodies(pre)
  /\ RLt(VelAlong(pre[1], pre[2], NormalX(pre[1], pre[2]),
                  NormalY(pre[1], pre[2])), Zero)
  /\ pre[1].restitution # pre[2].restitution
  /\ RLt(Zero, pre[2].restitution)
  /\ pre[1].mass # pre[2].mass
  /\ NormalY(pre[1], pre[2]) # Zero
  /\ objects[1].vx # pre[1].vx

\* C3: for an overlapping pair of bodies the pass moves A against the
\* normal by overlap * massB / (massA + massB) and B along it by
\* overlap * massA / (massA + massB); the shifts add up to the overlap and
\* the centres end radiusA + radiusB apart.
C3_MassWeightedCorrection ==
  (AfterPass /\ OverlappingBodies(pre)) =>
    LET a == pre[1]
        b == pre[2]
        nx == NormalX(a, b)
        ny == NormalY(a, b)
        overlap == OverlapOf(a, b)
        total == RAdd(a.mass, b.mass)
        shiftA == Dot(RSub(a.x, objects[1].x), RSub(a.y, objects[1].y), nx, ny)
        shiftB == Dot(RSub(objects[2].x, b.x), RSub(objects[2].y, b.y), nx, ny)
    IN /\ shiftA = RMul(overlap, JsDiv(b.mass, total))
       /\ shiftB = RMul(overlap, JsDiv(a.mass, total))
       /\ objects[1].x = RSub(a.x, RMul(nx, shiftA))
       /\ objects[1].y = RSub(a.y, RMul(ny, shiftA))
       /\ objects[2].x = RAdd(b.x, RMul(nx, shiftB))
       /\ objects[2].y = RAdd(b.y, RMul(ny, shiftB))
       /\ RAdd(shiftA, shiftB) = overlap
       /\ DistOf(objects[1], objects[2]) = MinDistOf(a, b)

\* Radius 10 each, equal masses, overlap 4 along the x axis: 2 and 2.
C3_Witness ==
  /\ AfterPass /\ OverlappingBodies(pre)
  /\ pre[1].radius = Q(10, 1) /\ pre[2].radius = Q(10, 1)
  /\ pre[1].mass = pre[2].mass
  /\ pre[1].y = pre[2].y
  /\ OverlapOf(pre[1], pre[2]) = Q(4, 1)
  /\ RSub(pre[1].x, objects[1].x) = Q(2, 1)
  /\ RSub(objects[2].x, pre[2].x) = Q(2, 1)

\* What handleBoundary must leave on one axis.
BoundaryAxisOk(pos0, vel0, pos1, vel1, r, extent) ==
  IF RLt(RSub(pos0, r), Zero)
  THEN pos1 = r /\ RLe(Zero, vel1) /\ RAbs(vel1) = RAbs(vel0)
  ELSE IF RLt(extent, RAdd(pos0, r))
       THEN pos1 = RSub(extent, r) /\ RLe(vel1, Zero)
       ELSE pos1 = pos0 /\ vel1 = vel0

\* C4: after handleBoundary on an entity with Transform, RigidBody and
\* Collider, on each axis: below the low edge, the position is the radius
\* and the velocity non-negative with its magnitude kept; else above the
\* high edge, the position is extent - radius and the velocity
\* non-positive; else both are unchanged.
C4_BoundaryClamp ==
  last = "handleBoundary" =>
    LET o == pre[LastIndex]
        n == objects[LastIndex]
    IN (o.hasT /\ o.hasRB /\ o.hasCol) =>
         /\ BoundaryAxisOk(o.x, o.vx, n.x, n.vx, o.radius, canvas.width)
         /\ BoundaryAxisOk(o.y, o.vy, n.y, n.vy, o.radius, canvas.height)

\* The low edge is crossed on x while moving away from the wall already,
\* the high edge on y, and the body was moved.
C4_Witness ==
  /\ last = "handleBoundary"
  /\ LET o == pre[LastIndex]
         n == objects[LastIndex]
     IN /\ o.hasT /\ o.hasRB /\ o.hasCol
        /\ RLt(RSub(o.x, o.radius), Zero)
        /\ RLt(Zero, o.vx) /\ n.vx = o.vx /\ n.x = o.radius
        /\ RLt(canvas.height, RAdd(o.y, o.radius))
        /\ RLt(Zero, o.vy) /\ n.vy = RNeg(o.vy)

\* C5: one RigidBody.update with dt >= 0 on an entity with a Transform
\* applies gravity, then damping, then integrates the position with the
\* damped velocity; with no friction, no buoyancy and no initial vertical
\* velocity, velocity.y is g*dt and the y position advances by g*dt*dt.
C5_IntegrationOrder ==
  last = "obj.update" =>
    LET o == pre[LastIndex]
        n == objects[LastIndex]
        damp == RSub(One, o.friction)
    IN (o.hasT /\ o.hasRB /\ RLe(Zero, dt)) =>
         /\ n.vy = RMul(RAdd(o.vy, RMul(RSub(o.gravity, o.buoyancy), dt)), damp)
         /\ n.vx = RMul(o.vx, damp)
         /\ n.x = RAdd(o.x, RMul(n.vx, dt))
         /\ n.y = RAdd(o.y, RMul(n.vy, dt))
         /\ (o.friction = Zero /\ o.buoyancy = Zero /\ o.vy = Zero) =>
              /\ n.vy = RMul(o.gravity, dt)
              /\ RSub(n.y, o.y) = RMul(o.gravity, RMul(dt, dt))

C5_Witness ==
  /\ last = "obj.update"
  /\ LET o == pre[LastIndex]
         n == objects[LastIndex]
     IN /\ o.hasT /\ o.hasRB
        /\ RLt(Zero, dt) /\ RLt(Zero, o.friction) /\ RLt(Zero, o.gravity)
        /\ RLt(Zero, o.buoyancy)
        /\ o.vx # Zero /\ o.vy # Zero
        /\ n.x # o.x /\ n.y # o.y /\ n.vy # o.vy

\* C6: every RigidBody.update on an entity with a Transform multiplies
\* angularVelocity by (1 - friction) before the angle advances by
\* angularVelocity * dt; with friction in (0, 1) a non-zero angularVelocity
\* shrinks in magnitude.
C6_AngularDamping ==
  last = "obj.update" =>
    LET o == pre[LastIndex]
        n == objects[LastIndex]
    IN (o.hasT /\ o.hasRB) =>
         /\ n.angularVelocity =
              RMul(o.angularVelocity, RSub(One, o.friction))
         /\ n.angle = RAdd(o.angle, RMul(n.angularVelocity, dt))
         /\ (RLt(Zero, o.friction) /\ RLt(o.friction, One)
             /\ o.angularVelocity # Zero) =>
              RLt(RAbs(n.angularVelocity), RAbs(o.angularVelocity))

\* The pair of bodies is moving apart along its normal.
SeparatingBodies(objs) ==
  /\ OverlappingBodies(objs)
  /\ RLt(Zero, VelAlong(objs[1], objs[2], NormalX(objs[1], objs[2]),
                        NormalY(objs[1], objs[2])))

\* C7: a pass over an overlapping pair of bodies that is already separating
\* leaves both velocities as they were and still applies the mass-weighted
\* correction; the pair is separating afterwards as well, so the same
\* holds of every later pass that finds it overlapping.
C7_SeparatingPairKeepsVelocity ==
  (AfterPass /\ SeparatingBodies(pre)) =>
    LET a == pre[1]
        b == pre[2]
        nx == NormalX(a, b)
        ny == NormalY(a, b)
        overlap == OverlapOf(a, b)
        total == RAdd(a.mass, b.mass)
        ca == RMul(overlap, JsDiv(b.mass, total))
        cb == RMul(overlap, JsDiv(a.mass, total))
    IN /\ objects[1].vx = a.vx /\ objects[1].vy = a.vy
       /\ objects[2].vx = b.vx /\ objects[2].vy = b.vy
       /\ objects[1].x = RSub(a.x, RMul(nx, ca))
       /\ objects[1].y = RSub(a.y, RMul(ny, ca))
       /\ objects[2].x = RAdd(b.x, RMul(nx, cb))
       /\ objects[2].y = RAdd(b.y, RMul(ny, cb))
       /\ RLt(Zero, VelAlong(objects[1], objects[2],
                             NormalX(objects[1], objects[2]),
                             NormalY(objects[1], objects[2])))

\* The second pass in a row finds the pair separating and overlapping
\* again (the wall pushed entity 1 back) and corrects it again.
C7_Witness ==
  /\ ticks = 2
  /\ AfterPass /\ SeparatingBodies(pre)
  /\ objects[1].x # pre[1].x
  /\ objects[2].x # pre[2].x

\* C8: a pass over a body and an overlapping entity that has a Collider
\* but no RigidBody changes nothing: no velocity and no position.
C8_GhostCollider ==
  (/\ AfterPass
   /\ Len(pre) = 2
   /\ pre[1].hasT /\ pre[1].hasCol /\ pre[1].hasRB
   /\ pre[2].hasT /\ pre[2].hasCol /\ ~pre[2].hasRB
   /\ RLt(DistOf(pre[1], pre[2]), MinDistOf(pre[1], pre[2])))
  => objects = pre

\* The body moves towards the ghost it overlaps.
C8_Witness ==
  /\ AfterPass
  /\ Len(pre) = 2
  /\ pre[1].hasT /\ pre[1].hasCol /\ pre[1].hasRB
  /\ pre[2].hasT /\ pre[2].hasCol /\ ~pre[2].hasRB
  /\ RLt(Zero, DistOf(pre[1], pre[2]))
  /\ RLt(DistOf(pre[1], pre[2]), MinDistOf(pre[1], pre[2]))
  /\ RLt(VelAlong(pre[1], pre[2], NormalX(pre[1], pre[2]),
                  NormalY(pre[1], pre[2])), Zero)

\* C9: whatever components the entities carry, a tick raises no error.
C9_TickNeverThrows == pc # "thrown"

\* C10: when a pass finds two entities with Colliders overlapping, an
\* onCollision callback of either is invoked with the other.
C10_OnCollisionInvoked ==
  (/\ AfterPass
   /\ Len(pre) = 2
   /\ pre[1].hasT /\ pre[1].hasCol /\ pre[2].hasT /\ pre[2].hasCol
   /\ RLt(DistOf(pre[1], pre[2]), MinDistOf(pre[1], pre[2])))
  => /\ pre[1].onCollision => <<pre[1].id, pre[2].id>> \in collisionCalls
     /\ pre[2].onCollision => <<pre[2].id, pre[1].id>> \in collisionCalls

\* C11: a RigidBody constructed with a mass <= 0 has mass 1, one constructed
\* with a mass > 0 has that mass; so every mass is positive and neither
\* massA + massB nor a mass the resolver divides by is zero.
C11_MassClamp ==
  \A i \in 1..Len(objects) :
    objects[i].hasRB =>
      /\ RLe(objects[i].massArg, Zero) => objects[i].mass = One
      /\ RLt(Zero, objects[i].massArg) => objects[i].mass = objects[i].massArg
      /\ RLt(Zero, objects[i].mass)
      /\ \A j \in 1..Len(objects) :
           objects[j].hasRB =>
             /\ RAdd(objects[i].mass, objects[j].mass) # Zero
             /\ JsDiv(One, objects[i].mass) # NaN
             /\ RAdd(JsDiv(One, objects[i].mass),
                     JsDiv(One, objects[j].mass)) # Zero

\* A body built with mass -5 and one built with mass 3 went through a pass
\* that pushed them apart.
C11_Witness ==
  /\ AfterPass
  /\ \E i \in 1..Len(objects) :
       /\ objects[i].hasRB /\ objects[i].massArg = Q(-5, 1)
       /\ objects[i].mass = One
       /\ objects[i].y # pre[i].y
  /\ \E i \in 1..Len(objects) :
       /\ objects[i].hasRB /\ objects[i].massArg = Q(3, 1)
       /\ objects[i].mass = Q(3, 1)
       /\ objects[i].y # pre[i].y

\* The pairs (i, j), i < j, of entities that both carry a Collider, in
\* ascending order of i, then of j.
RECURSIVE ColliderPairs(_, _, _)
ColliderPairs(objs, i, j) ==
  IF i > Len(objs) THEN <<>>
  ELSE IF j > Len(objs) THEN ColliderPairs(objs, i + 1, i + 2)
  ELSE (IF objs[i].hasCol /\ objs[j].hasCol THEN <<(<<i, j>>)>> ELSE <<>>)
       \o ColliderPairs(objs, i, j + 1)

\* C12: one pass examines every pair of entities that both carry a
\* Collider exactly once, in ascending index order (i, j), i < j, the pairs
\* after a separating pair of the same i included.
C12_EveryPairInOrder ==
  last = "CollisionSystem.update" => pairLog = ColliderPairs(pre, 1, 2)

\* The same of the passes that end without a TypeError.
C12_EveryPairInOrderUnlessThrown ==
  AfterPass => pairLog = ColliderPairs(pre, 1, 2)

\* The scene is two bodies with Colliders at the same point.
CoincidentBodies(objs) ==
  /\ Len(objs) = 2
  /\ objs[1].hasT /\ objs[1].hasCol /\ objs[1].hasRB
  /\ objs[2].hasT /\ objs[2].hasCol /\ objs[2].hasRB
  /\ objs[1].x = objs[2].x /\ objs[1].y = objs[2].y
  /\ RLt(Zero, MinDistOf(objs[1], objs[2]))

\* No field of the entity is NaN.
Finite(o) ==
  /\ o.x # NaN /\ o.y # NaN /\ o.vx # NaN /\ o.vy # NaN

\* C13: a pass over two coincident bodies (dist = 0) ends without an error,
\* divides nothing by zero into a position or a velocity, and leaves both
\* positions and both velocities as they were.
C13_CoincidentPairUntouched ==
  (last = "CollisionSystem.update" /\ CoincidentBodies(pre)) =>
    /\ pc # "thrown"
    /\ Finite(objects[1]) /\ Finite(objects[2])
    /\ objects = pre

\* The coincident bodies move relative to each other.
C13_Witness ==
  /\ AfterPass /\ CoincidentBodies(pre)
  /\ pre[1].vx # pre[2].vx
  /\ pre[1].mass # pre[2].mass
  /\ pairLog = <<(<<1, 2>>)>>

\* The scene is two bodies with Colliders that overlap (dist = 0 included).
TouchingBodies(objs) ==
  /\ Len(objs) = 2
  /\ objs[1].hasT /\ objs[1].hasCol /\ objs[1].hasRB
  /\ objs[2].hasT /\ objs[2].hasCol /\ objs[2].hasRB
  /\ RLt(DistOf(objs[1], objs[2]), MinDistOf(objs[1], objs[2]))

Weighted(massA, a, massB, b) == RAdd(RMul(massA, a), RMul(massB, b))

\* C14: a pass over an overlapping pair of bodies keeps the pair's linear
\* momentum massA * velA + massB * velB on each axis, and the mass-weighted
\* centre massA * posA + massB * posB.
C14_MomentumAndCentre ==
  (AfterPass /\ TouchingBodies(pre)) =>
    LET a == pre[1]
        b == pre[2]
        a1 == objects[1]
        b1 == objects[2]
    IN /\ Weighted(a.mass, a1.vx, b.mass, b1.vx) = Weighted(a.mass, a.vx, b.mass, b.vx)
       /\ Weighted(a.mass, a1.vy, b.mass, b1.vy) = Weighted(a.mass, a.vy, b.mass, b.vy)
       /\ Weighted(a.mass, a1.x, b.mass, b1.x) = Weighted(a.mass, a.x, b.mass, b.x)
       /\ Weighted(a.mass, a1.y, b.mass, b1.y) = Weighted(a.mass, a.y, b.mass, b.y)

\* Unequal masses, an oblique normal, and the impulse was applied.
C14_Witness ==
  /\ AfterPass /\ OverlappingBodies(pre)
  /\ pre[1].mass # pre[2].mass
  /\ pre[1].x # pre[2].x /\ pre[1].y # pre[2].y
  /\ objects[1].vx # pre[1].vx /\ objects[1].vy # pre[1].vy
  /\ objects[2].vx # pre[2].vx
  /\ objects[1].x # pre[1].x /\ objects[2].y # pre[2].y

\* The entity lies inside the canvas by its radius on both axes.
InBounds(o) ==
  /\ RLe(o.radius, o.x) /\ RLe(o.x, RSub(canvas.width, o.radius))
  /\ RLe(o.radius, o.y) /\ RLe(o.y, RSub(canvas.height, o.radius))

FitsCanvas(o) ==
  /\ RLe(RAdd(o.radius, o.radius), canvas.width)
  /\ RLe(RAdd(o.radius, o.radius), canvas.height)

\* C15: with the boundary enabled and a CollisionSystem registered, at the
\* end of every tick every entity with Transform, RigidBody and Collider
\* that fits the canvas lies inside it by its radius.
C15_InBoundsAtEndOfTick ==
  (last = "return" /\ boundaryEnabled /\ plugins = <<"CollisionSystem">>) =>
    \A i \in 1..Len(objects) :
      (objects[i].hasT /\ objects[i].hasRB /\ objects[i].hasCol
         /\ FitsCanvas(objects[i])) => InBounds(objects[i])

\* The same of the ticks in which no destroy() was called.
C15_InBoundsUnlessDestroy ==
  (last = "return" /\ boundaryEnabled /\ plugins = <<"CollisionSystem">>
     /\ \A p \in 1..Len(callLog) : callLog[p][1] # "destroy") =>
    \A i \in 1..Len(objects) :
      (objects[i].hasT /\ objects[i].hasRB /\ objects[i].hasCol
         /\ FitsCanvas(objects[i])) => InBounds(objects[i])

Count(log, e) == Cardinality({p \in 1..Len(log) : log[p] = e})

\* An entity destroyed during the tick has left the list and gets no update
\* after its destroy().
DestroyedGetNoUpdate ==
  \A p \in 1..Len(callLog) :
    callLog[p][1] = "destroy" =>
      /\ \A i \in 1..Len(objects) : objects[i].id # callLog[p][2]
      /\ \A q \in (p + 1)..Len(callLog) :
           callLog[q] # <<"update", callLog[p][2]>>

\* C16: when destroy() is called during the tick's iteration, the destroyed
\* entity has left the list and gets no further update, and every entity
\* still in the list got exactly one update (and one boundary pass) in the
\* tick.
C16_DestroyDuringIteration ==
  last = "return" =>
    /\ DestroyedGetNoUpdate
    /\ \A i \in 1..Len(objects) :
         /\ Count(callLog, <<"update", objects[i].id>>) = 1
         /\ boundaryEnabled =>
              Count(callLog, <<"boundary", objects[i].id>>) = 1

\* The part of C16 about the destroyed entity alone.
C16_DestroyedEntityLeaves == last = "return" => DestroyedGetNoUpdate

====
